---------------------------- MODULE Spec2Model ----------------------------
(***************************************************************************)
(* Terminal companion: the memory service (session buffer with a long-term *)
(* backend), the multi-provider AI conversation service and the controller *)
(* code that joins them, as one state machine.                             *)
(*                                                                         *)
(* Text is a sequence of character tokens.  A Latin letter or punctuation  *)
(* mark is the one-character string; a Hangul syllable of the source is    *)
(* one token written in Latin transcription ("an", "nyeong", ...), since   *)
(* the module is ASCII.  str.lower() is Lower, `x in y` on strings is      *)
(* Contains.                                                               *)
(***************************************************************************)
EXTENDS Integers, Sequences, FiniteSets, TLC

\* ------------------------------------------------------------------ bounds
\* Largest configured max_session_memories explored by the memory specification.
MaxN == 2
\* Most add_conversation calls between two clears of the session buffer.
MaxTurns == 3
\* Largest search limit passed to search_memories / get_conversation_history.
MaxLimit == 2
\* Longest conversation history handed to generate_response.
MaxHistory == 11
\* Most turns of a long conversation (the controller asks for the last 5).
MaxLongTurns == 6
\* Most turns stored before the controller's reply path is exercised.
MaxCtlTurns == 1
\* Most conversation turns in one run of the main loop.
MaxRunTurns == 1
\* Longest session, in seconds.
MaxDuration == 2

\* ------------------------------------------------------- program constants
\* _search_session_memories scans session_memories[-20:].
SessionSearchWindow == 20
\* MemoryConfig.max_session_memories default.
DefaultMaxSessionMemories == 100
\* MemoryConfig.search_limit default.
DefaultSearchLimit == 5
\* _build_messages and the Ollama prompt keep conversation_history[-10:].
HistoryWindow == 10
\* generate_ai_response asks get_conversation_history(limit=5).
ControllerHistoryLimit == 5

\* -------------------------------------------------------------------- text
\* Python's None, for Optional[str] values: a token no text contains.
None == <<"<None>">>

Min(a, b) == IF a < b THEN a ELSE b
Max(a, b) == IF a > b THEN a ELSE b

\* str.lower() on one character: Latin capitals fold, everything else stays.
UpperLetters == << "A", "B", "C", "D", "E", "F", "G", "H", "I", "J", "K", "L", "M",
                  "N", "O", "P", "Q", "R", "S", "T", "U", "V", "W", "X", "Y", "Z" >>
LowerLetters == << "a", "b", "c", "d", "e", "f", "g", "h", "i", "j", "k", "l", "m",
                  "n", "o", "p", "q", "r", "s", "t", "u", "v", "w", "x", "y", "z" >>

LowerOf ==
    [c \in { UpperLetters[i] : i \in 1..Len(UpperLetters) } |->
        LowerLetters[CHOOSE i \in 1..Len(UpperLetters) : UpperLetters[i] = c]]

LowerChar(c) == IF c \in DOMAIN LowerOf THEN LowerOf[c] ELSE c

Lower(s) == [i \in 1..Len(s) |-> LowerChar(s[i])]

\* Python `needle in hay` for strings: a contiguous occurrence ('' is in all).
Contains(hay, needle) ==
    \E i \in 0..(Len(hay) - Len(needle)) :
        \A j \in 1..Len(needle) : hay[i + j] = needle[j]

\* Python s[i:] (a negative i counts from the end, out-of-range is clamped).
PySliceFrom(s, i) ==
    LET start == IF i < 0 THEN Max(Len(s) + i, 0) ELSE Min(i, Len(s))
    IN  SubSeq(s, start + 1, Len(s))

\* Python s[:i].
PySliceTo(s, i) ==
    LET stop == IF i < 0 THEN Max(Len(s) + i, 0) ELSE Min(i, Len(s))
    IN  SubSeq(s, 1, stop)

\* ------------------------------------------------------------------ inputs
\* User messages and assistant responses handed to the memory service.
Messages == { <<"H", "i">>, <<"o", "k">> }
Responses == { <<"h", "i", "!">>, <<"O", "K">> }
\* Queries for search_memories: mixed case, a miss, and the empty string.
Queries == { <<"h", "I">>, <<"k">>, <<"z">> }
Limits == 1..MaxLimit

\* ------------------------------------------------------------------- state
VARIABLES
    session_memories,       \* MemoryService.session_memories
    mem_is_initialized,     \* MemoryService.is_initialized
    max_session_memories,   \* config.memory.max_session_memories
    backend_calls,          \* calls the last operation made to the mem0 backend
    added,                  \* history: turns added since the last clear
    ai_is_initialized,      \* AIConversationService.is_initialized
    current_provider,       \* AIConversationService.current_provider
    openai_client,          \* AIConversationService.openai_client is set
    config_ai,              \* config.ai: the API keys and the three model names
    requests,               \* provider requests the last operation issued
    ret,                    \* the last operation: name, arguments, outcome
    user_profile,           \* CompanionController.user_profile
    profile_file,           \* user_profile.json: <<>> or << the profile written >>
    personality_type,       \* PersonalityService.personality_type
    interaction_count,      \* PersonalityService.interaction_count
    pc,                     \* where CompanionController.run stands
    user_input,             \* run: the line read by get_user_input
    reply,                  \* process_conversation: the response being handled
    stored,                 \* history: add_conversation calls of the current turn
    session_updates,        \* history: times the session duration was added
    last_save               \* history: <<>> or << the last _save_user_profile call >>

mem_vars == << session_memories, mem_is_initialized, max_session_memories,
               backend_calls, added >>
ai_vars == << ai_is_initialized, current_provider, openai_client, config_ai,
              requests >>
ctl_vars == << user_profile, profile_file, personality_type, interaction_count,
               pc, user_input, reply, stored, session_updates, last_save >>
vars == << mem_vars, ai_vars, ret, ctl_vars >>

\* ConversationEntry(user_message, assistant_response, NEUTRAL, ...).
ConversationEntry(user_message, assistant_response) ==
    [user_message |-> user_message, assistant_response |-> assistant_response]

\* MemoryEntry built from a session turn: f"user: {u}\nAI: {a}", score 0.8.
SessionMemoryEntry(memory) ==
    [id |-> None,
     content |-> <<"U", ":">> \o memory.user_message
                 \o <<"\n", "A", ":">> \o memory.assistant_response,
     score |-> "0.8"]

\* What the mem0 backend may answer to a search.
BackendResults ==
    { <<>>,
      << [id |-> <<"m", "1">>, memory |-> <<"t", "e", "a">>, score |-> "0.5"] >> }

BackendSearchOutcomes ==
    { [kind |-> "raise"], [kind |-> "not_a_dict"], [kind |-> "no_results_key"] }
    \cup { [kind |-> "results", results |-> r] : r \in BackendResults }

BackendAddOutcomes == { "ok", "raise" }

\* Providers the service implements, and values config.ai.provider may hold.
Providers == { "openai", "openrouter", "ollama" }
ConfigProviders == Providers \cup { "gemini" }

\* MemoryService.__init__ with config.memory.max_session_memories in maxes.
MemoryServiceInit(maxes) ==
    /\ session_memories = <<>>
    /\ mem_is_initialized = FALSE
    /\ max_session_memories \in maxes
    /\ backend_calls = <<>>
    /\ added = <<>>

\* AIConversationService.__init__ with AIProviderConfig read from the
\* environment: the provider name and whether each API key is set.
AIServiceInit(providers, keys) ==
    /\ openai_client = FALSE
    /\ ai_is_initialized = FALSE
    /\ current_provider \in providers
    /\ \E k1 \in keys, k2 \in keys :
           config_ai = [openai_api_key |-> k1, openrouter_api_key |-> k2,
                        openai_model |-> "gpt-4o-mini",
                        openrouter_model |-> "openai/gpt-4o-mini",
                        ollama_model |-> "gemma3:1b"]
    /\ requests = <<>>

\* PersonalityType.
PersonalityTypes == { "caring", "playful", "intellectual", "romantic" }

\* CompanionController.__init__: the profile is loaded from user_profile.json
\* or created with the default personality, and the personality service is
\* constructed with the profile's personality. `personalities` are the values
\* the profile may hold; `on_disk` says whether the profile came from the file.
ControllerInit(personalities, on_disk) ==
    /\ \E p \in personalities, f \in on_disk :
         /\ user_profile = [name |-> IF f THEN <<"A">> ELSE <<>>,
                            preferred_personality |-> p,
                            preferences |-> {},
                            total_conversations |-> 0,
                            total_session_time |-> 0]
         /\ personality_type = p
         /\ profile_file = IF f THEN << user_profile >> ELSE <<>>
    /\ interaction_count = 0
    /\ pc = "start"
    /\ user_input = <<>>
    /\ reply = None
    /\ stored = 0
    /\ session_updates = 0
    /\ last_save = <<>>

\* The controller's services after construction with the default buffer size.
Init ==
    /\ MemoryServiceInit({DefaultMaxSessionMemories})
    /\ AIServiceInit(ConfigProviders, {TRUE})
    /\ ControllerInit({"caring"}, {FALSE})
    /\ ret = [op |-> "init"]

InitMemory ==
    /\ MemoryServiceInit(1..MaxN)
    /\ AIServiceInit({"ollama"}, {FALSE})
    /\ ControllerInit({"caring"}, {FALSE})
    /\ ret = [op |-> "init"]

InitAI ==
    /\ MemoryServiceInit({DefaultMaxSessionMemories})
    /\ AIServiceInit(ConfigProviders, {FALSE})
    /\ ControllerInit({"caring"}, {FALSE})
    /\ ret = [op |-> "init"]

\* ---------------------------------------------------------- MemoryService
\* MemoryService.initialize: Memory.from_config succeeds, or the import or the
\* construction raises and the service stays as it was.
mem_initialize(ok) ==
    /\ mem_is_initialized' = IF ok THEN TRUE ELSE mem_is_initialized
    /\ backend_calls' = <<>>
    /\ ret' = [op |-> "mem_initialize", raised |-> FALSE, value |-> ok]
    /\ UNCHANGED << session_memories, max_session_memories, added, ai_vars >>

\* Mutant: the trim keeps the oldest entries ([:max] for [-max:]).
AppendAndTrim_KeepOldest(buf, entry) ==
    LET appended == Append(buf, entry)
    IN  IF Len(appended) > max_session_memories
        THEN PySliceTo(appended, max_session_memories)
        ELSE appended

\* append + `if len > max: session_memories = session_memories[-max:]`.
AppendAndTrim(buf, entry) ==
    LET appended == Append(buf, entry)
    IN  IF Len(appended) > max_session_memories
        THEN PySliceFrom(appended, -max_session_memories)
        ELSE appended

\* Mutant: an error of memory.add reaches the outer except, which returns
\* False before the session buffer is touched.
add_conversation_BackendErrorSkipsSession(user_message, assistant_response, outcome) ==
    /\ IF ~mem_is_initialized
       THEN backend_calls' = <<>>
       ELSE backend_calls' = << [method |-> "add", kind |-> "conversation",
                                 outcome |-> outcome] >>
    /\ session_memories' =
           IF mem_is_initialized /\ outcome = "raise"
           THEN session_memories
           ELSE AppendAndTrim(session_memories,
                              ConversationEntry(user_message, assistant_response))
    /\ added' = Append(added, ConversationEntry(user_message, assistant_response))
    /\ ret' = [op |-> "add_conversation", raised |-> FALSE,
               value |-> ~(mem_is_initialized /\ outcome = "raise"),
               user_message |-> user_message,
               assistant_response |-> assistant_response]
    /\ UNCHANGED << mem_is_initialized, max_session_memories, ai_vars >>

add_conversation(user_message, assistant_response, outcome) ==
    /\ IF ~mem_is_initialized
       THEN backend_calls' = <<>>
       ELSE \* memory.add inside its own try/except: an error is swallowed
            backend_calls' = << [method |-> "add", kind |-> "conversation",
                                 outcome |-> outcome] >>
    /\ session_memories' =
           AppendAndTrim(session_memories,
                         ConversationEntry(user_message, assistant_response))
    /\ added' = Append(added, ConversationEntry(user_message, assistant_response))
    /\ ret' = [op |-> "add_conversation", raised |-> FALSE, value |-> TRUE,
               user_message |-> user_message,
               assistant_response |-> assistant_response]
    /\ UNCHANGED << mem_is_initialized, max_session_memories, ai_vars >>

RECURSIVE SelectMatching(_, _)
\* The loop of _search_session_memories over the scanned turns, in order.
SelectMatching(memories, query_lower) ==
    IF memories = <<>> THEN <<>>
    ELSE LET memory == Head(memories)
             hit == \/ Contains(Lower(memory.user_message), query_lower)
                    \/ Contains(Lower(memory.assistant_response), query_lower)
         IN  (IF hit THEN << SessionMemoryEntry(memory) >> ELSE <<>>)
             \o SelectMatching(Tail(memories), query_lower)

search_session_memories(query, limit) ==
    PySliceTo(SelectMatching(PySliceFrom(session_memories, -SessionSearchWindow),
                             Lower(query)),
              limit)

\* MemoryEntry built from one backend result.
BackendMemoryEntry(entry) ==
    [id |-> entry.id, content |-> entry.memory, score |-> entry.score]

MemorySearchResult(entries, query, limit) ==
    [op |-> "search_memories", raised |-> FALSE, entries |-> entries,
     query |-> query, limit |-> limit, total_count |-> Len(entries)]

\* Mutant: without the inner except a backend error ends the search with no
\* entries instead of the session fallback.
LongTermSearch_NoFallback(query, limit, outcome) ==
    CASE outcome.kind \in { "raise", "not_a_dict", "no_results_key" } ->
           MemorySearchResult(<<>>, query, limit)
      [] OTHER ->
           MemorySearchResult([i \in 1..Len(outcome.results) |->
                                  BackendMemoryEntry(outcome.results[i])],
                              query, limit)

\* Mutant: an empty backend result is topped up from the session buffer.
LongTermSearch_EmptyFallsBack(query, limit, outcome) ==
    IF outcome.kind = "results" /\ outcome.results # <<>>
    THEN MemorySearchResult([i \in 1..Len(outcome.results) |->
                                BackendMemoryEntry(outcome.results[i])],
                            query, limit)
    ELSE MemorySearchResult(search_session_memories(query, limit), query, limit)

\* The initialized branch of search_memories: the try/except around
\* memory.search and around the conversion of its result.
LongTermSearch(query, limit, outcome) ==
    CASE outcome.kind = "raise" ->
           \* inner except: fall back to the session buffer
           MemorySearchResult(search_session_memories(query, limit), query, limit)
      [] outcome.kind = "not_a_dict" ->
           \* `"results" in result` raises; the outer except falls back
           MemorySearchResult(search_session_memories(query, limit), query, limit)
      [] outcome.kind = "no_results_key" ->
           MemorySearchResult(<<>>, query, limit)
      [] OTHER ->
           MemorySearchResult([i \in 1..Len(outcome.results) |->
                                  BackendMemoryEntry(outcome.results[i])],
                              query, limit)

search_memories(query, limit, outcome) ==
    /\ IF ~mem_is_initialized
       THEN /\ backend_calls' = <<>>
            /\ ret' = MemorySearchResult(search_session_memories(query, limit),
                                         query, limit)
       ELSE /\ backend_calls' = << [method |-> "search", outcome |-> outcome.kind] >>
            /\ ret' = LongTermSearch(query, limit, outcome)
    /\ UNCHANGED << session_memories, mem_is_initialized, max_session_memories,
                    added, ai_vars >>

\* Mutant: without long-term memory the preference is kept in the session
\* buffer and reported as stored.
add_user_preference_SessionFallback(preference_type, outcome) ==
    /\ IF ~mem_is_initialized
       THEN /\ backend_calls' = <<>>
            /\ session_memories' =
                   Append(session_memories,
                          ConversationEntry(<<preference_type>>, <<>>))
            /\ ret' = [op |-> "add_user_preference", raised |-> FALSE,
                       value |-> TRUE]
       ELSE /\ backend_calls' = << [method |-> "add", kind |-> "preference",
                                    outcome |-> outcome] >>
            /\ session_memories' = session_memories
            /\ ret' = [op |-> "add_user_preference", raised |-> FALSE,
                       value |-> TRUE]
    /\ UNCHANGED << mem_is_initialized, max_session_memories, added, ai_vars >>

add_user_preference(preference_type, outcome) ==
    /\ IF ~mem_is_initialized
       THEN /\ backend_calls' = <<>>
            /\ ret' = [op |-> "add_user_preference", raised |-> FALSE,
                       value |-> FALSE]
       ELSE /\ backend_calls' = << [method |-> "add", kind |-> "preference",
                                    outcome |-> outcome] >>
            /\ ret' = [op |-> "add_user_preference", raised |-> FALSE,
                       value |-> TRUE]
    /\ UNCHANGED << session_memories, mem_is_initialized, max_session_memories,
                    added, ai_vars >>

\* `self.session_memories[-limit:] if self.session_memories else []`.
ConversationHistory(limit) ==
    IF session_memories # <<>> THEN PySliceFrom(session_memories, -limit) ELSE <<>>

get_conversation_history(limit) ==
    /\ ret' = [op |-> "get_conversation_history", raised |-> FALSE,
               value |-> ConversationHistory(limit), limit |-> limit]
    /\ backend_calls' = <<>>
    /\ UNCHANGED << session_memories, mem_is_initialized, max_session_memories,
                    added, ai_vars >>

clear_session_memory ==
    /\ session_memories' = <<>>
    /\ added' = <<>>
    /\ backend_calls' = <<>>
    /\ ret' = [op |-> "clear_session_memory", raised |-> FALSE, value |-> TRUE]
    /\ UNCHANGED << mem_is_initialized, max_session_memories, ai_vars >>

\* -------------------------------------------------- AIConversationService
\* Keyword lists of _fallback_response, branch by branch.
GreetingWords == { <<"[an]", "[nyeong]">>, <<"h", "e", "l", "l", "o">>, <<"h", "i">> }
SadWords == { <<"[seul]", "[peu]">>, <<"[u]", "[ul]">>, <<"[him]", "[deul]">> }
HappyWords == { <<"[gi]", "[ppeu]">>, <<"[haeng]", "[bok]">>, <<"[joh]">> }
ThanksWords == { <<"[go]", "[ma]", "[wo]">>, <<"[gam]", "[sa]">> }
ByeWords == { <<"[an]", "[nyeong]", "[hi]">>, <<"b", "y", "e">>,
              <<"g", "o", "o", "d", "b", "y", "e">> }
QuestionWords == { <<"[mwo]">>, <<"[mu]", "[eot]">>, <<"[wae]">>,
                   <<"[eo]", "[tteoh]", "[ge]">> }

\* any(word in text for word in words)
AnyIn(words, text) == \E w \in words : Contains(text, w)

\* The fixed replies of _fallback_response, each cut to its opening tokens.
GreetingReply == <<"[an]", "[nyeong]", "[ha]", "[se]", "[yo]", "!">>
SadReply == <<"[him]", "[deun]", " ", "[si]", "[gan]">>
HappyReply == <<"[gi]", "[bun]", "[i]", " ", "[joh]">>
ThanksReply == <<"[cheon]", "[man]", "[e]", "[yo]", "!">>
ByeReply == <<"[an]", "[nyeong]", "[hi]", " ", "[ga]">>
QuestionReply == <<"[gung]", "[geum]", "[han]">>
RandomReplies == << <<"[heung]", "[mi]">>, <<"[geu]", "[reon]">>,
                    <<"[dang]", "[sin]">>, <<"A", "I", " ", "[yeon]", "[gyeol]">>,
                    <<"[je]", "[han]">> >>

\* The if/elif chain of _fallback_response: the first branch that matches.
FallbackBranch(user_message) ==
    LET user_lower == Lower(user_message)
    IN  IF AnyIn(GreetingWords, user_lower) THEN "greeting"
        ELSE IF AnyIn(SadWords, user_lower) THEN "sad"
        ELSE IF AnyIn(HappyWords, user_lower) THEN "happy"
        ELSE IF AnyIn(ThanksWords, user_lower) THEN "thanks"
        ELSE IF AnyIn(ByeWords, user_lower) THEN "bye"
        ELSE IF \/ Contains(user_message, <<"?">>)
                \/ AnyIn(QuestionWords, user_lower) THEN "question"
        ELSE "random"

\* _fallback_response; pick is the index random.choice draws.
fallback_response(user_message, pick) ==
    LET branch == FallbackBranch(user_message)
    IN  CASE branch = "greeting" -> GreetingReply
          [] branch = "sad" -> SadReply
          [] branch = "happy" -> HappyReply
          [] branch = "thanks" -> ThanksReply
          [] branch = "bye" -> ByeReply
          [] branch = "question" -> QuestionReply
          [] OTHER -> RandomReplies[pick]

\* Python truthiness of an Optional[str].
Truthy(v) == v # None /\ v # <<>>

RECURSIVE HistoryMessages(_)
\* The loop of _build_messages: a user and an assistant message per entry.
HistoryMessages(entries) ==
    IF entries = <<>> THEN <<>>
    ELSE << [role |-> "user", content |-> Head(entries).user_message],
            [role |-> "assistant", content |-> Head(entries).assistant_response] >>
         \o HistoryMessages(Tail(entries))

\* Mutant: the window keeps the oldest entries instead of the newest.
build_messages_OldestWindow(system_prompt, conversation_history, user_message) ==
    << [role |-> "system", content |-> system_prompt] >>
    \o HistoryMessages(PySliceTo(conversation_history, HistoryWindow))
    \o << [role |-> "user", content |-> user_message] >>

\* _build_messages: system prompt, the last 10 history entries, the message.
build_messages(system_prompt, conversation_history, user_message) ==
    << [role |-> "system", content |-> system_prompt] >>
    \o (IF conversation_history # <<>>
        THEN HistoryMessages(PySliceFrom(conversation_history, -HistoryWindow))
        ELSE <<>>)
    \o << [role |-> "user", content |-> user_message] >>

RECURSIVE HistoryPrompt(_)
\* The loop of _generate_ollama_response: "Human: u\nAssistant: a\n\n" per entry.
HistoryPrompt(entries) ==
    IF entries = <<>> THEN <<>>
    ELSE <<"Human: ">> \o Head(entries).user_message
         \o <<"\nAssistant: ">> \o Head(entries).assistant_response \o <<"\n\n">>
         \o HistoryPrompt(Tail(entries))

OllamaPrompt(system_prompt, conversation_history, user_message) ==
    <<"System: ">> \o system_prompt \o <<"\n\n">>
    \o (IF conversation_history # <<>>
        THEN HistoryPrompt(PySliceFrom(conversation_history, -HistoryWindow))
        ELSE <<>>)
    \o <<"Human: ">> \o user_message \o <<"\nAssistant:">>

\* Text a provider may put in a well-formed reply: a reply, "" or null.
ReplyContents == { <<"Y", "o">>, <<>>, None }

\* What can happen to one provider request: the transport raises (connection
\* error, timeout); a 200 answer arrives whose body is well formed, lacks the
\* reply field, or is not JSON; or a non-success status arrives.
ProviderOutcomes ==
    { [kind |-> "raise"], [kind |-> "http", status |-> 500, body |-> "error"] }
    \cup { [kind |-> "http", status |-> 200, body |-> "content", content |-> c] :
             c \in ReplyContents }
    \cup { [kind |-> "http", status |-> 200, body |-> b] :
             b \in { "no_reply_field", "not_json" } }

\* The result of one _generate_<provider>_response call:
\* whether it raised, what it returned, the requests it sent, whether the
\* conversation statistics were updated (total_conversations += 1), and the
\* list _build_messages returned to it (<<>> when it was not called).
CallResult(raised, value, reqs, counted, messages) ==
    [raised |-> raised, value |-> value, requests |-> reqs, counted |-> counted,
     messages |-> messages]

\* _generate_openai_response: the SDK raises on transport errors, on a
\* non-success status and on a reply it cannot parse.
generate_openai_response(user_message, system_prompt, conversation_history, outcome) ==
    LET messages == build_messages(system_prompt, conversation_history, user_message)
        request == [provider |-> "openai", model |-> config_ai.openai_model,
                    payload |-> messages]
    IN  IF ~openai_client
        THEN CallResult(TRUE, None, <<>>, FALSE, messages)
        ELSE IF outcome.kind = "http" /\ outcome.status = 200
                /\ outcome.body = "content"
        THEN CallResult(FALSE, outcome.content, <<request>>, TRUE, messages)
        ELSE CallResult(TRUE, None, <<request>>, FALSE, messages)

\* Mutant: a non-success status is raised as an error (raise_for_status).
generate_openrouter_response_RaiseForStatus(user_message, system_prompt, conversation_history, outcome) ==
    LET messages == build_messages(system_prompt, conversation_history, user_message)
        request == [provider |-> "openrouter", model |-> config_ai.openrouter_model,
                    payload |-> messages]
    IN  IF outcome.kind = "http" /\ outcome.status = 200 /\ outcome.body = "content"
        THEN CallResult(FALSE, outcome.content, <<request>>, TRUE, messages)
        ELSE CallResult(TRUE, None, <<request>>, FALSE, messages)

generate_openrouter_response(user_message, system_prompt, conversation_history, outcome) ==
    LET messages == build_messages(system_prompt, conversation_history, user_message)
        request == [provider |-> "openrouter", model |-> config_ai.openrouter_model,
                    payload |-> messages]
    IN  IF outcome.kind = "raise"
        THEN CallResult(TRUE, None, <<request>>, FALSE, messages)
        ELSE IF outcome.status = 200
        THEN IF outcome.body = "content"
             THEN CallResult(FALSE, outcome.content, <<request>>, TRUE, messages)
             ELSE \* response.json() or result["choices"][0]... raises
                  CallResult(TRUE, None, <<request>>, FALSE, messages)
        ELSE CallResult(FALSE, None, <<request>>, FALSE, messages)

generate_ollama_response(user_message, system_prompt, conversation_history, outcome) ==
    LET messages == build_messages(system_prompt, conversation_history, user_message)
        prompt == OllamaPrompt(system_prompt, conversation_history, user_message)
        request == [provider |-> "ollama", model |-> "gemma3:1b", payload |-> prompt]
    IN  IF outcome.kind = "raise"
        THEN CallResult(TRUE, None, <<request>>, FALSE, messages)
        ELSE IF outcome.status = 200
        THEN IF outcome.body = "content"
             THEN CallResult(FALSE, outcome.content, <<request>>, TRUE, messages)
             ELSE IF outcome.body = "no_reply_field"
             THEN \* result.get("response", "")
                  CallResult(FALSE, <<>>, <<request>>, TRUE, messages)
             ELSE \* response.json() raises
                  CallResult(TRUE, None, <<request>>, FALSE, messages)
        ELSE CallResult(FALSE, None, <<request>>, FALSE, messages)

\* The try block of generate_response: dispatch on current_provider; with no
\* branch taken the function ends and returns None.
ProviderDispatch(user_message, system_prompt, conversation_history, outcome) ==
    IF current_provider = "openai"
    THEN generate_openai_response(user_message, system_prompt,
                                  conversation_history, outcome)
    ELSE IF current_provider = "openrouter"
    THEN generate_openrouter_response(user_message, system_prompt,
                                      conversation_history, outcome)
    ELSE IF current_provider = "ollama"
    THEN generate_ollama_response(user_message, system_prompt,
                                  conversation_history, outcome)
    ELSE CallResult(FALSE, None, <<>>, FALSE, <<>>)

\* Mutant: no except clause, a provider error leaves generate_response.
GenerateResponse_NoExcept(user_message, system_prompt, conversation_history, outcome, pick) ==
    IF ~ai_is_initialized
    THEN CallResult(FALSE, fallback_response(user_message, pick), <<>>, FALSE, <<>>)
    ELSE ProviderDispatch(user_message, system_prompt, conversation_history, outcome)

\* Mutant: after a provider error the request is sent a second time.
GenerateResponse_Retry(user_message, system_prompt, conversation_history, outcome, pick) ==
    IF ~ai_is_initialized
    THEN CallResult(FALSE, fallback_response(user_message, pick), <<>>, FALSE, <<>>)
    ELSE LET call == ProviderDispatch(user_message, system_prompt,
                                      conversation_history, outcome)
         IN  IF call.raised
             THEN CallResult(FALSE, fallback_response(user_message, pick),
                             call.requests \o call.requests, FALSE, call.messages)
             ELSE call

\* generate_response as a function of the state and the environment's answer:
\* the fallback when uninitialized, else the provider call inside try/except.
GenerateResponse(user_message, system_prompt, conversation_history, outcome, pick) ==
    IF ~ai_is_initialized
    THEN CallResult(FALSE, fallback_response(user_message, pick), <<>>, FALSE, <<>>)
    ELSE LET call == ProviderDispatch(user_message, system_prompt,
                                      conversation_history, outcome)
         IN  IF call.raised
             THEN CallResult(FALSE, fallback_response(user_message, pick),
                             call.requests, FALSE, call.messages)
             ELSE call

generate_response(user_message, system_prompt, conversation_history, outcome, pick) ==
    LET r == GenerateResponse(user_message, system_prompt, conversation_history,
                              outcome, pick)
    IN  /\ requests' = r.requests
        /\ ret' = [op |-> "generate_response", raised |-> r.raised,
                   value |-> r.value, counted |-> r.counted,
                   messages |-> r.messages,
                   user_message |-> user_message,
                   system_prompt |-> system_prompt,
                   conversation_history |-> conversation_history,
                   outcome |-> outcome]
        /\ UNCHANGED << ai_is_initialized, current_provider, openai_client,
                        config_ai, mem_vars >>

\* initialize -> _initialize_openai / _initialize_openrouter / _initialize_ollama.
\* api_key: whether the caller passes a key; env_ok: the openai import and
\* client construction succeed, resp. the Ollama server answers 200.
InitializeReturns(api_key, env_ok) ==
    IF current_provider = "openai"
    THEN env_ok /\ (api_key \/ config_ai.openai_api_key)
    ELSE IF current_provider = "openrouter"
    THEN api_key \/ config_ai.openrouter_api_key
    ELSE IF current_provider = "ollama"
    THEN env_ok
    ELSE FALSE

\* Mutant: _initialize_openai marks the service initialized without keeping
\* the client it built.
ai_initialize_ClientNotKept(api_key, env_ok) ==
    LET ok == InitializeReturns(api_key, env_ok)
    IN  /\ ai_is_initialized' = IF ok THEN TRUE ELSE ai_is_initialized
        /\ openai_client' = openai_client
        /\ requests' = <<>>
        /\ ret' = [op |-> "ai_initialize", raised |-> FALSE, value |-> ok]
        /\ UNCHANGED << current_provider, config_ai, mem_vars >>

ai_initialize(api_key, env_ok) ==
    LET ok == InitializeReturns(api_key, env_ok)
    IN  /\ ai_is_initialized' = IF ok THEN TRUE ELSE ai_is_initialized
        /\ openai_client' = IF ok /\ current_provider = "openai"
                            THEN TRUE ELSE openai_client
        /\ requests' = <<>>
        /\ ret' = [op |-> "ai_initialize", raised |-> FALSE, value |-> ok]
        /\ UNCHANGED << current_provider, config_ai, mem_vars >>

\* Mutant: the provider changes but the service stays initialized.
set_provider_KeepsInitialized(provider) ==
    /\ IF provider \in Providers
       THEN /\ current_provider' = provider
            /\ ret' = [op |-> "set_provider", raised |-> FALSE, value |-> TRUE,
                       provider |-> provider]
       ELSE /\ UNCHANGED current_provider
            /\ ret' = [op |-> "set_provider", raised |-> FALSE, value |-> FALSE,
                       provider |-> provider]
    /\ requests' = <<>>
    /\ UNCHANGED << ai_is_initialized, openai_client, config_ai, mem_vars >>

set_provider(provider) ==
    /\ IF provider \in Providers
       THEN /\ current_provider' = provider
            /\ ai_is_initialized' = FALSE
            /\ ret' = [op |-> "set_provider", raised |-> FALSE, value |-> TRUE,
                       provider |-> provider]
       ELSE /\ UNCHANGED << current_provider, ai_is_initialized >>
            /\ ret' = [op |-> "set_provider", raised |-> FALSE, value |-> FALSE,
                       provider |-> provider]
    /\ requests' = <<>>
    /\ UNCHANGED << openai_client, config_ai, mem_vars >>

OpenAIValidModels == { "gpt-4o-mini", "gpt-4o", "gpt-4", "gpt-3.5-turbo" }

\* config.ai after set_model(model_name), and what set_model returns.
SetModelConfig(model_name) ==
    IF current_provider = "openai"
    THEN IF model_name \in OpenAIValidModels
         THEN [config_ai EXCEPT !.openai_model = model_name]
         ELSE config_ai
    ELSE IF current_provider = "openrouter"
    THEN [config_ai EXCEPT !.openrouter_model = model_name]
    ELSE IF current_provider = "ollama"
    THEN [config_ai EXCEPT !.ollama_model = model_name]
    ELSE config_ai

SetModelReturns(model_name) ==
    IF current_provider = "openai" THEN model_name \in OpenAIValidModels
    ELSE current_provider \in { "openrouter", "ollama" }

set_model(model_name) ==
    /\ config_ai' = SetModelConfig(model_name)
    /\ requests' = <<>>
    /\ ret' = [op |-> "set_model", raised |-> FALSE,
               value |-> SetModelReturns(model_name), model_name |-> model_name]
    /\ UNCHANGED << ai_is_initialized, current_provider, openai_client,
                    mem_vars >>

CurrentModel ==
    IF current_provider = "openai" THEN config_ai.openai_model
    ELSE IF current_provider = "openrouter" THEN config_ai.openrouter_model
    ELSE IF current_provider = "ollama" THEN config_ai.ollama_model
    ELSE ""

get_current_model ==
    /\ ret' = [op |-> "get_current_model", raised |-> FALSE, value |-> CurrentModel]
    /\ requests' = <<>>
    /\ UNCHANGED << ai_is_initialized, current_provider, openai_client, config_ai,
                    mem_vars >>

\* User messages for generate_response: a keyword branch, the question branch
\* and the random branch of the fallback.
AIMessages == { <<"H", "i">>, <<"o", "k", "?">>, <<"o", "k">> }

\* The draws of random.choice that matter for user_message.
FallbackPicks(user_message) ==
    IF FallbackBranch(user_message) = "random" THEN 1..Len(RandomReplies) ELSE { 1 }

\* PersonalityService.generate_system_prompt: the personality header, then the
\* remembered texts as "- " lines or the no-memories sentence.
RECURSIVE MemoryLines(_)
MemoryLines(memories) ==
    IF memories = <<>> THEN <<>>
    ELSE <<"\n", "-", " ">> \o Head(memories) \o MemoryLines(Tail(memories))

generate_system_prompt(memories) ==
    <<"[prompt]">>
    \o (IF memories # <<>> THEN <<"[memories]">> \o MemoryLines(memories)
        ELSE <<"[no memories]">>)

\* ---------------------------------------------------- CompanionController
\* The fixed text generate_ai_response returns for a falsy provider reply.
Apology == <<"[joe]", "[song]", "[hae]", "[yo]">>

\* Mutant: the reply is returned as it came, without `or <apology>`.
ResponseOrApology_NoDefault(response) == response

\* `response or "<apology>"`.
ResponseOrApology(response) == IF Truthy(response) THEN response ELSE Apology

\* search_memories as generate_ai_response calls it.
ControllerSearch(user_message, mem_outcome) ==
    IF ~mem_is_initialized
    THEN MemorySearchResult(search_session_memories(user_message, DefaultSearchLimit),
                            user_message, DefaultSearchLimit)
    ELSE LongTermSearch(user_message, DefaultSearchLimit, mem_outcome)

\* generate_ai_response: memory search, the last turns of the session, the
\* system prompt with the remembered texts, then one generate_response call.
generate_ai_response(user_message, mem_outcome, ai_outcome, pick) ==
    LET memory_result == ControllerSearch(user_message, mem_outcome)
        memory_texts == [i \in 1..Len(memory_result.entries) |->
                            memory_result.entries[i].content]
        conversation_history == ConversationHistory(ControllerHistoryLimit)
        system_prompt == generate_system_prompt(memory_texts)
        r == GenerateResponse(user_message, system_prompt, conversation_history,
                              ai_outcome, pick)
    IN  /\ backend_calls' = IF mem_is_initialized
                            THEN << [method |-> "search",
                                     outcome |-> mem_outcome.kind] >>
                            ELSE <<>>
        /\ requests' = r.requests
        /\ ret' = [op |-> "generate_ai_response", raised |-> r.raised,
                   value |-> ResponseOrApology(r.value), response |-> r.value,
                   counted |-> r.counted, messages |-> r.messages,
                   user_message |-> user_message,
                   system_prompt |-> system_prompt,
                   conversation_history |-> conversation_history,
                   outcome |-> ai_outcome]
        /\ UNCHANGED << session_memories, mem_is_initialized, max_session_memories,
                        added, ai_is_initialized, current_provider, openai_client,
                        config_ai >>

\* -------------------------------------------- CompanionController.run
\* str.strip(): leading and trailing blanks removed.
RECURSIVE LStrip(_)
LStrip(text) ==
    IF text # <<>> /\ Head(text) = " " THEN LStrip(Tail(text)) ELSE text

RECURSIVE RStrip(_)
RStrip(text) ==
    IF text # <<>> /\ text[Len(text)] = " "
    THEN RStrip(SubSeq(text, 1, Len(text) - 1)) ELSE text

Strip(text) == RStrip(LStrip(text))

\* The command words of process_command.
QuitWords == { <<"q", "u", "i", "t">>, <<"e", "x", "i", "t">>, <<"[jong]", "[ryo]">>, <<"[na]", "[ga]", "[gi]">> }
HelpCommands == { <<"h", "e", "l", "p">>, <<"[do]", "[um]", "[mal]">> }
PersonalityCommands == { <<"p", "e", "r", "s", "o", "n", "a", "l", "i", "t", "y">>, <<"[seong]", "[gyeok]">> }
StatsCommands == { <<"s", "t", "a", "t", "s">>, <<"[tong]", "[gye]">> }
ClearCommands == { <<"c", "l", "e", "a", "r">>, <<"[keul]", "[li]", "[eo]">> }
MemoryCommands == { <<"m", "e", "m", "o", "r", "y">>, <<"[gi]", "[eok]">> }
ConfigCommands == { <<"c", "o", "n", "f", "i", "g">>, <<"[seol]", "[jeong]">> }
ProviderCommands == { <<"p", "r", "o", "v", "i", "d", "e", "r">>, <<"a", "i">> }
ModelCommands == { <<"m", "o", "d", "e", "l">>, <<"[mo]", "[del]">> }

\* Mutant: the input is compared as typed.
CommandOf_AsTyped(text) == text

\* `command = user_input.lower().strip()`.
CommandOf(text) == Strip(Lower(text))

\* The handler process_command runs for user_input, "quit", or "none".
CommandHandler(text) ==
    LET command == CommandOf(text)
    IN  CASE command \in QuitWords -> "quit"
          [] command \in HelpCommands -> "help"
          [] command \in PersonalityCommands -> "personality"
          [] command \in StatsCommands -> "stats"
          [] command \in ClearCommands -> "clear"
          [] command \in MemoryCommands -> "memory"
          [] command \in ConfigCommands -> "config"
          [] command \in ProviderCommands -> "provider"
          [] command \in ModelCommands -> "model"
          [] OTHER -> "none"

\* What process_command returns: "False", "True" or "None".
ProcessCommandReturns(text) ==
    LET handler == CommandHandler(text)
    IN  IF handler = "quit" THEN "False"
        ELSE IF handler = "none" THEN "None"
        ELSE "True"

\* get_user_input: the line typed, or "quit" on KeyboardInterrupt and EOFError.
GetUserInput(event) ==
    IF event.kind = "line" THEN event.text ELSE <<"q", "u", "i", "t">>

\* extract_preferences: the keys of the preferences found in the message.
LikeWords == { <<"[joh]", "[a]">>, <<"[silh]", "[eo]">>, <<"[seon]", "[ho]">> }
Foods == { <<"[pi]", "[ja]">>, <<"[chi]", "[kin]">>, <<"[han]", "[sik]">>, <<"[jung]", "[sik]">>, <<"[il]", "[sik]">>, <<"[yang]", "[sik]">> }
ActivityWords == { <<"[joh]", "[a]">>, <<"[chwi]", "[mi]">>, <<"[gwan]", "[sim]">> }
Activities == { <<"[yeong]", "[hwa]">>, <<"[eum]", "[ak]">>, <<"[dok]", "[seo]">>, <<"[un]", "[dong]">>, <<"[ge]", "[im]">>, <<"[yeo]", "[haeng]">>, <<"[yo]", "[ri]">> }
PersonalityHints == { <<"[jae]", "[mi]", "[iss]">>, <<"[jang]", "[nan]">>, <<"[yu]", "[meo]">>, <<"[tta]", "[tteus]">>, <<"[dol]", "[bom]">>, <<"[ji]", "[jeok]">>,
                      <<"[ttok]", "[ttok]">>, <<"[ro]", "[maen]", "[tik]">>, <<"[sa]", "[rang]">> }

extract_preferences(user_message) ==
    LET message_lower == Lower(user_message)
        has(word) == Contains(message_lower, word)
    IN  (IF AnyIn(LikeWords, message_lower) /\ (has(<<"[joh]", "[a]">>) \/ has(<<"[silh]", "[eo]">>))
         THEN { <<"food", food>> : food \in { f \in Foods : has(f) } }
         ELSE {})
        \cup
        (IF AnyIn(ActivityWords, message_lower)
         THEN { <<"activity", a>> : a \in { x \in Activities : has(x) } }
         ELSE {})
        \cup
        (IF AnyIn(PersonalityHints, message_lower)
         THEN { <<"preferred", <<"personality">> >> }
         ELSE {})

\* _save_user_profile: user_profile.json after the call, and the call itself.
ProfileFileAfterSave(profile, ok) == IF ok THEN << profile >> ELSE profile_file
SaveCall(profile, ok) == << [data |-> profile, ok |-> ok] >>

\* run, lines 326-333: the welcome screen and initialize_systems, first half:
\* ai_service.initialize().
run_initialize_ai(env_ok) ==
    /\ pc = "start"
    /\ ai_initialize(FALSE, env_ok)
    /\ pc' = "init_memory"
    /\ UNCHANGED << user_profile, profile_file, personality_type, interaction_count,
                    user_input, reply, stored, session_updates, last_save >>

\* initialize_systems, second half: memory_service.initialize(openai_client).
run_initialize_memory(ok) ==
    /\ pc = "init_memory"
    /\ mem_initialize(ok)
    /\ pc' = "setup"
    /\ UNCHANGED << user_profile, profile_file, personality_type, interaction_count,
                    user_input, reply, stored, session_updates, last_save >>

\* setup_user_profile, then the greeting: a profile without a name asks for
\* one and saves it unless the answer is empty or a quit word.
setup_user_profile(event, save_ok) ==
    LET name == GetUserInput(event)
        named == user_profile.name = <<>> /\ name # <<>>
                 /\ Lower(name) \notin QuitWords
        profile == IF named THEN [user_profile EXCEPT !.name = name]
                   ELSE user_profile
    IN  /\ pc = "setup"
        /\ user_profile' = profile
        /\ profile_file' = IF named THEN ProfileFileAfterSave(profile, save_ok)
                           ELSE profile_file
        /\ last_save' = IF named THEN SaveCall(profile, save_ok) ELSE last_save
        /\ pc' = "loop"
        /\ ret' = [op |-> "setup_user_profile", raised |-> FALSE, named |-> named]
        /\ backend_calls' = <<>>
        /\ requests' = <<>>
        /\ UNCHANGED << session_memories, mem_is_initialized, max_session_memories,
                        added, ai_is_initialized, current_provider, openai_client,
                        config_ai, personality_type, interaction_count, user_input,
                        reply, stored, session_updates >>

\* One pass of the main loop for blank input (`continue`), a quit word
\* (`break`, then the goodbye) and the commands that only display something:
\* help, stats, clear, config.
run_input(event) ==
    LET line == GetUserInput(event)
        handler == CommandHandler(line)
    IN  /\ pc = "loop"
        /\ \/ Strip(line) = <<>>
           \/ handler \in { "quit", "help", "stats", "clear", "config" }
        /\ user_input' = line
        /\ pc' = IF Strip(line) # <<>> /\ handler = "quit" THEN "finally" ELSE "loop"
        /\ ret' = [op |-> "run_input", raised |-> FALSE, event |-> event.kind,
                   blank |-> (Strip(line) = <<>>),
                   command_result |-> IF Strip(line) = <<>> THEN "blank"
                                      ELSE ProcessCommandReturns(line),
                   exit |-> IF event.kind = "line" THEN "quit" ELSE "end_of_input"]
        /\ backend_calls' = <<>>
        /\ requests' = <<>>
        /\ UNCHANGED << session_memories, mem_is_initialized, max_session_memories,
                        added, ai_is_initialized, current_provider, openai_client,
                        config_ai, user_profile, profile_file, personality_type,
                        interaction_count, reply, stored, session_updates,
                        last_save >>

\* A menu answered with 0, Ctrl-C or an invalid number returns None.
NoSelection == "<None>"

\* Mutant: the profile keeps the old personality after a change.
PreferredAfterChange_ServiceOnly(profile, new_personality) == profile

\* `self.user_profile.preferred_personality = new_personality`.
PreferredAfterChange(profile, new_personality) ==
    [profile EXCEPT !.preferred_personality = new_personality]

\* The personality command: _handle_personality_change with the menu answer
\* `selected` (None for 0, Ctrl-C or an invalid number).
handle_personality_change(line, selected, save_ok) ==
    LET current == personality_type
        changes == selected # NoSelection /\ selected # current
        \* change_personality: every PersonalityType is in PERSONALITY_TRAITS
        changed == changes /\ selected \in PersonalityTypes
        profile == IF changed THEN PreferredAfterChange(user_profile, selected)
                   ELSE user_profile
    IN  /\ pc = "loop"
        /\ Strip(line) # <<>>
        /\ CommandHandler(line) = "personality"
        /\ user_input' = line
        /\ personality_type' = IF changed THEN selected ELSE personality_type
        /\ user_profile' = profile
        /\ profile_file' = IF changed THEN ProfileFileAfterSave(profile, save_ok)
                           ELSE profile_file
        /\ last_save' = IF changed THEN SaveCall(profile, save_ok) ELSE last_save
        /\ ret' = [op |-> "handle_personality_change", raised |-> FALSE,
                   selected |-> selected, current |-> current, changed |-> changed,
                   save_ok |-> save_ok, command_result |-> "True"]
        /\ backend_calls' = <<>>
        /\ requests' = <<>>
        /\ UNCHANGED << session_memories, mem_is_initialized, max_session_memories,
                        added, ai_is_initialized, current_provider, openai_client,
                        config_ai, interaction_count, pc, reply, stored,
                        session_updates >>

\* The memory command: _handle_memory_menu clears the session buffer when it
\* is not empty and the user confirms.
handle_memory_menu(line, confirmed) ==
    /\ pc = "loop"
    /\ Strip(line) # <<>>
    /\ CommandHandler(line) = "memory"
    /\ user_input' = line
    /\ IF Len(session_memories) > 0 /\ confirmed
       THEN clear_session_memory
       ELSE /\ ret' = [op |-> "handle_memory_menu", raised |-> FALSE,
                       command_result |-> "True"]
            /\ backend_calls' = <<>>
            /\ UNCHANGED << session_memories, mem_is_initialized,
                            max_session_memories, added, ai_vars >>
    /\ UNCHANGED << user_profile, profile_file, personality_type, interaction_count,
                    pc, reply, stored, session_updates, last_save >>

\* The provider command: _handle_provider_change up to set_provider; a new
\* provider is followed by ai_service.initialize().
handle_provider_change(line, selected) ==
    /\ pc = "loop"
    /\ Strip(line) # <<>>
    /\ CommandHandler(line) = "provider"
    /\ user_input' = line
    /\ IF selected # NoSelection /\ selected # current_provider
       THEN /\ set_provider(selected)
            /\ pc' = IF selected \in Providers THEN "reinitialize" ELSE "loop"
       ELSE /\ ret' = [op |-> "handle_provider_change", raised |-> FALSE,
                       command_result |-> "True"]
            /\ requests' = <<>>
            /\ pc' = "loop"
            /\ UNCHANGED << ai_is_initialized, current_provider, openai_client,
                            config_ai, mem_vars >>
    /\ UNCHANGED << user_profile, profile_file, personality_type, interaction_count,
                    reply, stored, session_updates, last_save >>

\* _handle_provider_change, lines 222-226: re-initialization for the new provider.
handle_provider_reinitialize(env_ok) ==
    /\ pc = "reinitialize"
    /\ ai_initialize(FALSE, env_ok)
    /\ pc' = "loop"
    /\ UNCHANGED << user_profile, profile_file, personality_type, interaction_count,
                    user_input, reply, stored, session_updates, last_save >>

\* get_available_models (for Ollama the built-in list).
AvailableModels ==
    IF current_provider = "openai"
    THEN { "gpt-4o-mini", "gpt-4o", "gpt-4", "gpt-3.5-turbo" }
    ELSE IF current_provider = "openrouter"
    THEN { "openai/gpt-4o-mini", "openai/gpt-4o", "openai/gpt-4-turbo",
           "anthropic/claude-3-sonnet", "anthropic/claude-3-haiku",
           "meta-llama/llama-3.1-8b-instruct", "meta-llama/llama-3.1-70b-instruct",
           "google/gemini-pro" }
    ELSE IF current_provider = "ollama"
    THEN { "gemma3:1b", "gemma2:2b", "llama3.2", "llama3.1", "mistral",
           "codellama", "phi3" }
    ELSE {}

\* The model command: _handle_model_change with the menu answer `selected`.
handle_model_change(line, selected) ==
    /\ pc = "loop"
    /\ Strip(line) # <<>>
    /\ CommandHandler(line) = "model"
    /\ selected = NoSelection \/ selected \in AvailableModels
    /\ user_input' = line
    /\ IF AvailableModels # {} /\ selected # NoSelection /\ selected # CurrentModel
       THEN set_model(selected)
       ELSE /\ ret' = [op |-> "handle_model_change", raised |-> FALSE,
                       command_result |-> "True"]
            /\ requests' = <<>>
            /\ UNCHANGED << ai_is_initialized, current_provider, openai_client,
                            config_ai, mem_vars >>
    /\ UNCHANGED << user_profile, profile_file, personality_type, interaction_count,
                    pc, reply, stored, session_updates, last_save >>

\* The positions of run inside process_conversation.
TurnPcs == { "reply", "display", "store", "update" }

\* process_conversation, lines 276-287, for input that is no command: the
\* preferences found in the message go to the profile and to long-term memory
\* and the profile is saved. (Messages here carry at most one preference.)
conversation_preferences(line, outcome, save_ok) ==
    LET preferences == extract_preferences(line)
        profile == [user_profile EXCEPT
                       !.preferences = user_profile.preferences \cup preferences]
    IN  /\ pc = "loop"
        /\ Strip(line) # <<>>
        /\ CommandHandler(line) = "none"
        /\ interaction_count < MaxRunTurns
        /\ Len(session_memories) < MaxRunTurns
        /\ Cardinality(preferences) <= 1
        /\ user_input' = line
        /\ IF preferences # {}
           THEN /\ \E pref \in preferences : add_user_preference(pref[1], outcome)
                /\ profile_file' = ProfileFileAfterSave(profile, save_ok)
                /\ last_save' = SaveCall(profile, save_ok)
           ELSE /\ ret' = [op |-> "process_conversation", raised |-> FALSE]
                /\ backend_calls' = <<>>
                /\ UNCHANGED << session_memories, mem_is_initialized,
                                max_session_memories, added, ai_vars,
                                profile_file, last_save >>
        /\ user_profile' = profile
        /\ reply' = None
        /\ stored' = 0
        /\ pc' = "reply"
        /\ UNCHANGED << personality_type, interaction_count, session_updates >>

\* process_conversation, line 293: generate_ai_response(user_message).
conversation_reply(mem_outcome, ai_outcome, pick) ==
    /\ pc = "reply"
    /\ generate_ai_response(user_input, mem_outcome, ai_outcome, pick)
    /\ reply' = ret'.value
    /\ pc' = "display"
    /\ UNCHANGED << user_profile, profile_file, personality_type, interaction_count,
                    user_input, stored, session_updates, last_save >>

\* process_conversation, line 296: the reply is displayed.
conversation_display ==
    /\ pc = "display"
    /\ pc' = "store"
    /\ ret' = [op |-> "display_message", raised |-> FALSE, message |-> reply]
    /\ backend_calls' = <<>>
    /\ requests' = <<>>
    /\ UNCHANGED << session_memories, mem_is_initialized, max_session_memories,
                    added, ai_is_initialized, current_provider, openai_client,
                    config_ai, user_profile, profile_file, personality_type,
                    interaction_count, user_input, reply, stored, session_updates,
                    last_save >>

\* process_conversation, lines 299-310: add_conversation(user_message, response).
conversation_store(outcome) ==
    /\ pc = "store"
    /\ add_conversation(user_input, reply, outcome)
    /\ stored' = stored + 1
    /\ pc' = "update"
    /\ UNCHANGED << user_profile, profile_file, personality_type, interaction_count,
                    user_input, reply, session_updates, last_save >>

\* Mutant: the turn is stored again when the statistics are updated.
conversation_update_StoresAgain ==
    /\ pc = "update"
    /\ add_conversation(user_input, reply, "ok")
    /\ stored' = stored + 1
    /\ interaction_count' = interaction_count + 1
    /\ user_profile' = [user_profile EXCEPT
                           !.total_conversations = user_profile.total_conversations + 1]
    /\ pc' = "loop"
    /\ UNCHANGED << profile_file, personality_type, user_input, reply,
                    session_updates, last_save >>

\* process_conversation, lines 313-314: update_interaction and update_stats.
conversation_update ==
    /\ pc = "update"
    /\ interaction_count' = interaction_count + 1
    /\ user_profile' = [user_profile EXCEPT
                           !.total_conversations = user_profile.total_conversations + 1]
    /\ pc' = "loop"
    /\ ret' = [op |-> "update_stats", raised |-> FALSE]
    /\ backend_calls' = <<>>
    /\ requests' = <<>>
    /\ UNCHANGED << session_memories, mem_is_initialized, max_session_memories,
                    added, ai_is_initialized, current_provider, openai_client,
                    config_ai, profile_file, personality_type, user_input, reply,
                    stored, session_updates, last_save >>

\* How a turn can end early: an exception (caught in process_conversation,
\* the loop goes on), Ctrl-C answered with no or with another Ctrl-C (the loop
\* goes on), Ctrl-C answered with yes (break), Ctrl-C followed by end of input
\* at the confirmation (EOFError leaves the loop through the outer except).
TurnEndings == { "error", "interrupt_declined", "interrupt_confirmed",
                 "interrupt_then_eof" }

conversation_aborted(ending) ==
    /\ pc \in TurnPcs
    /\ pc' = IF ending \in { "error", "interrupt_declined" } THEN "loop"
             ELSE "finally"
    /\ ret' = [op |-> "conversation_aborted", raised |-> FALSE, ending |-> ending,
               exit |-> IF ending = "interrupt_then_eof" THEN "error"
                        ELSE "interrupt"]
    /\ backend_calls' = <<>>
    /\ requests' = <<>>
    /\ UNCHANGED << session_memories, mem_is_initialized, max_session_memories,
                    added, ai_is_initialized, current_provider, openai_client,
                    config_ai, user_profile, profile_file, personality_type,
                    interaction_count, user_input, reply, stored, session_updates,
                    last_save >>

\* An exception before the loop (the welcome screen) reaches the outer except.
run_error ==
    /\ pc = "start"
    /\ pc' = "finally"
    /\ ret' = [op |-> "run_error", raised |-> FALSE, exit |-> "error"]
    /\ backend_calls' = <<>>
    /\ requests' = <<>>
    /\ UNCHANGED << session_memories, mem_is_initialized, max_session_memories,
                    added, ai_is_initialized, current_provider, openai_client,
                    config_ai, user_profile, profile_file, personality_type,
                    interaction_count, user_input, reply, stored, session_updates,
                    last_save >>

\* finally, line 382: the first _save_user_profile().
finally_save(ok) ==
    /\ pc = "finally"
    /\ profile_file' = ProfileFileAfterSave(user_profile, ok)
    /\ last_save' = SaveCall(user_profile, ok)
    /\ pc' = "finally_update"
    /\ ret' = [op |-> "finally_save", raised |-> FALSE, exit |-> ret.exit]
    /\ backend_calls' = <<>>
    /\ requests' = <<>>
    /\ UNCHANGED << session_memories, mem_is_initialized, max_session_memories,
                    added, ai_is_initialized, current_provider, openai_client,
                    config_ai, user_profile, personality_type, interaction_count,
                    user_input, reply, stored, session_updates >>

\* Mutant: the session duration is added before and after the first save.
SessionTimeAfterUpdate_Twice(total, session_duration) ==
    total + session_duration + session_duration

\* update_stats(conversations_increment=0, session_time_increment=duration).
SessionTimeAfterUpdate(total, session_duration) == total + session_duration

\* finally, lines 385-389: the session duration is added to the statistics.
finally_update(session_duration) ==
    /\ pc = "finally_update"
    /\ user_profile' =
           [user_profile EXCEPT
               !.total_session_time =
                   SessionTimeAfterUpdate(user_profile.total_session_time,
                                          session_duration)]
    /\ session_updates' = session_updates + 1
    /\ pc' = "finally_save_again"
    /\ ret' = [op |-> "finally_update", raised |-> FALSE, exit |-> ret.exit,
               session_duration |-> session_duration]
    /\ backend_calls' = <<>>
    /\ requests' = <<>>
    /\ UNCHANGED << session_memories, mem_is_initialized, max_session_memories,
                    added, ai_is_initialized, current_provider, openai_client,
                    config_ai, profile_file, personality_type, interaction_count,
                    user_input, reply, stored, last_save >>

\* finally, line 390: the second _save_user_profile().
finally_save_again(ok) ==
    /\ pc = "finally_save_again"
    /\ profile_file' = ProfileFileAfterSave(user_profile, ok)
    /\ last_save' = SaveCall(user_profile, ok)
    /\ pc' = "done"
    /\ ret' = [op |-> "finally_save_again", raised |-> FALSE, exit |-> ret.exit,
               session_duration |-> ret.session_duration]
    /\ backend_calls' = <<>>
    /\ requests' = <<>>
    /\ UNCHANGED << session_memories, mem_is_initialized, max_session_memories,
                    added, ai_is_initialized, current_provider, openai_client,
                    config_ai, user_profile, personality_type, interaction_count,
                    user_input, reply, stored, session_updates >>

DigitTokens == << "0", "1", "2", "3", "4", "5", "6", "7", "8", "9",
                  "10", "11", "12", "13", "14", "15" >>

\* A conversation history of n distinct turns, oldest first.
HistoryOf(n) ==
    [i \in 1..n |-> ConversationEntry(<<"q", DigitTokens[i]>>, <<"r", DigitTokens[i]>>)]

\* (a missing history, None, takes the same branches as the empty list)
Histories == { HistoryOf(n) : n \in 0..MaxHistory }

ModelNames == { "gpt-4o", "llama3.2" }

\* The environment answers only when a request can be sent.
OutcomesNow == IF ai_is_initialized THEN ProviderOutcomes ELSE { [kind |-> "unused"] }

\* The AI service driven through its public interface.
NextAI ==
    \/ \E k \in BOOLEAN, e \in BOOLEAN : ai_initialize(k, e) /\ UNCHANGED ctl_vars
    \/ \E p \in ConfigProviders : set_provider(p) /\ UNCHANGED ctl_vars
    \/ \E m \in ModelNames : set_model(m) /\ UNCHANGED ctl_vars
    \/ get_current_model /\ UNCHANGED ctl_vars
    \/ \E u \in AIMessages, o \in OutcomesNow :
         \E pick \in FallbackPicks(u) :
           /\ generate_response(u, generate_system_prompt(<<>>), HistoryOf(1), o, pick)
           /\ UNCHANGED ctl_vars

SpecAI == InitAI /\ [][NextAI]_vars

\* The backend answers only when long-term memory is initialized.
SearchOutcomesNow ==
    IF mem_is_initialized
    THEN { [kind |-> "raise"] }
         \cup { [kind |-> "results", results |-> r] : r \in BackendResults \ { <<>> } }
    ELSE { [kind |-> "unused"] }

\* The controller's reply path over both services: start-up initialization,
\* provider changes, stored turns, and generate_ai_response for every answer
\* of the memory backend and of the provider.
Next ==
    \/ \E e \in BOOLEAN : ai_initialize(FALSE, e) /\ UNCHANGED ctl_vars
    \/ \E ok \in BOOLEAN : mem_initialize(ok) /\ UNCHANGED ctl_vars
    \/ \E p \in Providers : set_provider(p) /\ UNCHANGED ctl_vars
    \/ /\ Len(added) < MaxCtlTurns
       /\ add_conversation(<<"H", "i">>, <<"h", "i", "!">>, "ok")
       /\ UNCHANGED ctl_vars
    \/ \E u \in Messages, mo \in SearchOutcomesNow, ao \in OutcomesNow :
         \E pick \in FallbackPicks(u) :
           generate_ai_response(u, mo, ao, pick) /\ UNCHANGED ctl_vars

Spec == Init /\ [][Next]_vars

\* Long conversations in session mode: the history window of the controller
\* and of _build_messages, with a provider that answers.
SuccessOutcomes ==
    IF ai_is_initialized
    THEN { [kind |-> "http", status |-> 200, body |-> "content",
            content |-> <<"Y", "o">>] }
    ELSE { [kind |-> "unused"] }

NextHistory ==
    \/ \E e \in BOOLEAN : ai_initialize(FALSE, e) /\ UNCHANGED ctl_vars
    \/ \E u \in Messages :
           /\ Len(added) < MaxLongTurns
           /\ add_conversation(u, <<"O", "K">>, "ok")
           /\ UNCHANGED ctl_vars
    \/ \E ao \in SuccessOutcomes :
           /\ generate_ai_response(<<"H", "i">>, [kind |-> "unused"], ao, 1)
           /\ UNCHANGED ctl_vars
    \/ \E h \in Histories, ao \in SuccessOutcomes :
           /\ generate_response(<<"H", "i">>, generate_system_prompt(<<>>), h, ao, 1)
           /\ UNCHANGED ctl_vars

SpecHistory == Init /\ [][NextHistory]_vars

\* What the user does at the prompt of the main loop: lines typed, and the end
\* of input.
CommandLines ==
    { <<" ">>, <<" ", "Q", "u", "i", "t">>, <<"h", "e", "l", "p">>,
      <<"[seong]", "[gyeok]">>, <<"M", "e", "m", "o", "r", "y", " ">>,
      <<"a", "i">>, <<"m", "o", "d", "e", "l">>, <<"H", "i">> }

RunLines ==
    { <<" ">>, <<"e", "x", "i", "t">>, <<"s", "t", "a", "t", "s">>,
      <<"H", "i">>, <<"[yu]", "[meo]">> }

LineEvents(lines) == { [kind |-> "line", text |-> l] : l \in lines }

NameEvents == { [kind |-> "line", text |-> <<"B">>], [kind |-> "eof"] }

\* The backend answers of one run: long-term search when it is initialized.
RunSearchOutcomes ==
    IF mem_is_initialized
    THEN { [kind |-> "results", results |-> r] : r \in BackendResults \ { <<>> } }
    ELSE { [kind |-> "unused"] }

\* The provider answers of one run: a reply, or a non-success status.
RunOutcomes ==
    IF ai_is_initialized
    THEN { [kind |-> "http", status |-> 200, body |-> "content",
            content |-> <<"Y", "o">>],
           [kind |-> "http", status |-> 500, body |-> "error"] }
    ELSE { [kind |-> "unused"] }

\* The main loop with every command of process_command and every answer to
\* its menus, next to plain conversation in basic mode.
NextCommands ==
    \/ run_initialize_ai(FALSE)
    \/ run_initialize_memory(FALSE)
    \/ \E ev \in NameEvents : setup_user_profile(ev, TRUE)
    \/ \E ev \in LineEvents(CommandLines) : run_input(ev)
    \/ \E l \in CommandLines, sel \in { NoSelection, "caring", "playful" },
          ok \in BOOLEAN : handle_personality_change(l, sel, ok)
    \/ \E l \in CommandLines, c \in BOOLEAN : handle_memory_menu(l, c)
    \/ \E l \in CommandLines, sel \in { NoSelection, "ollama", "openrouter" } :
          handle_provider_change(l, sel)
    \/ \E e \in BOOLEAN : handle_provider_reinitialize(e)
    \/ \E l \in CommandLines, sel \in { NoSelection, "llama3.2" } :
          handle_model_change(l, sel)
    \/ \E l \in CommandLines : conversation_preferences(l, "ok", TRUE)
    \/ \E ao \in SuccessOutcomes :
          conversation_reply([kind |-> "unused"], ao, 1)
    \/ conversation_display
    \/ conversation_store("ok")
    \/ conversation_update

InitCommands ==
    /\ MemoryServiceInit({DefaultMaxSessionMemories})
    /\ AIServiceInit({"ollama"}, {TRUE})
    /\ ControllerInit({"caring", "romantic"}, {TRUE})
    /\ ret = [op |-> "init"]

SpecCommands == InitCommands /\ [][NextCommands]_vars

\* CompanionController.run from construction to the end of its finally block:
\* conversation turns with every way a turn and the loop can end.
NextRun ==
    \/ \E e \in BOOLEAN : run_initialize_ai(e)
    \/ \E ok \in BOOLEAN : run_initialize_memory(ok)
    \/ \E ev \in NameEvents, ok \in BOOLEAN : setup_user_profile(ev, ok)
    \/ \E ev \in LineEvents(RunLines) \cup { [kind |-> "eof"] } : run_input(ev)
    \/ \E l \in RunLines, o \in BackendAddOutcomes, ok \in BOOLEAN :
          conversation_preferences(l, o, ok)
    \/ \E mo \in RunSearchOutcomes, ao \in RunOutcomes :
          conversation_reply(mo, ao, 1)
    \/ conversation_display
    \/ \E o \in BackendAddOutcomes : conversation_store(o)
    \/ conversation_update
    \/ \E ending \in TurnEndings : conversation_aborted(ending)
    \/ run_error
    \/ \E ok \in BOOLEAN : finally_save(ok)
    \/ \E d \in 1..MaxDuration : finally_update(d)
    \/ \E ok \in BOOLEAN : finally_save_again(ok)

InitRun ==
    /\ MemoryServiceInit({DefaultMaxSessionMemories})
    /\ AIServiceInit({"ollama", "openrouter"}, {TRUE})
    /\ ControllerInit({"caring"}, BOOLEAN)
    /\ ret = [op |-> "init"]

SpecRun == InitRun /\ [][NextRun]_vars

\* The finally block of run is straight-line code: once entered it runs to
\* its end.
SpecRunFair ==
    /\ SpecRun
    /\ WF_vars(\E ok \in BOOLEAN : finally_save(ok))
    /\ WF_vars(\E d \in 1..MaxDuration : finally_update(d))
    /\ WF_vars(\E ok \in BOOLEAN : finally_save_again(ok))

\* The memory service driven through its public interface.
NextMemory ==
    \/ \E ok \in BOOLEAN : mem_initialize(ok) /\ UNCHANGED ctl_vars
    \/ \E u \in Messages, a \in Responses, o \in BackendAddOutcomes :
           /\ Len(added) < MaxTurns
           /\ add_conversation(u, a, o)
           /\ UNCHANGED ctl_vars
    \/ \E q \in Queries, l \in Limits, o \in BackendSearchOutcomes :
           search_memories(q, l, o) /\ UNCHANGED ctl_vars
    \/ \E o \in BackendAddOutcomes :
           add_user_preference("food", o) /\ UNCHANGED ctl_vars
    \/ \E l \in Limits : get_conversation_history(l) /\ UNCHANGED ctl_vars
    \/ clear_session_memory /\ UNCHANGED ctl_vars

SpecMemory == InitMemory /\ [][NextMemory]_vars


\* ================================================================== claims
\* ret describes the last operation; no operation other than the one named
\* changes the variables a formula reads next to it.

BackendSearchRaised ==
    backend_calls # <<>> /\ backend_calls[1].method = "search"
    /\ backend_calls[1].outcome = "raise"

\* C1: search_memories never raises, and when long-term memory is not
\* initialized, or it is and the backend search raises, the result is the
\* session-memory search for the same query and limit, with total_count the
\* number of entries returned.
C1_SearchFallsBackToSession ==
    ret.op = "search_memories" =>
        /\ ret.raised = FALSE
        /\ (~mem_is_initialized \/ BackendSearchRaised) =>
              /\ ret.entries = search_session_memories(ret.query, ret.limit)
              /\ ret.total_count = Len(ret.entries)
              /\ Len(ret.entries) <= ret.limit

\* C1 witness: the backend raised and the session buffer supplied a match.
C1_Witness ==
    /\ ret.op = "search_memories"
    /\ mem_is_initialized
    /\ BackendSearchRaised
    /\ ret.total_count >= 1

\* C2: every add_conversation call returns True and leaves the session buffer
\* ending with exactly one new entry for the turn, after a suffix of the old
\* buffer, whether long-term memory is off, its add succeeds, or its add raises.
C2_AddAppendsOneAndReturnsTrue ==
    [][ret'.op = "add_conversation" =>
          /\ ret'.raised = FALSE
          /\ ret'.value = TRUE
          /\ \E k \in 0..Len(session_memories) :
                session_memories' =
                    Append(SubSeq(session_memories, k + 1, Len(session_memories)),
                           ConversationEntry(ret'.user_message,
                                             ret'.assistant_response))
          /\ Len(session_memories') =
                Min(Len(session_memories) + 1, max_session_memories)]_vars

\* C2 witness: the long-term add raised and the turn is in the session buffer.
C2_Witness ==
    /\ ret.op = "add_conversation"
    /\ ret.value = TRUE
    /\ backend_calls = << [method |-> "add", kind |-> "conversation",
                           outcome |-> "raise"] >>
    /\ Len(session_memories) >= 2
    /\ session_memories[Len(session_memories)] =
           ConversationEntry(ret.user_message, ret.assistant_response)

\* C3: for every configured N >= 1 the session buffer holds at most N entries,
\* exactly the most recent min(N, k) of the k turns added since the last
\* clear, in the order they were added.
C3_RollingBuffer ==
    LET k == Len(added)
        kept == Min(max_session_memories, k)
    IN  /\ max_session_memories >= 1
        /\ Len(session_memories) <= max_session_memories
        /\ Len(session_memories) = kept
        /\ \A i \in 1..kept : session_memories[i] = added[k - kept + i]

\* C3 witness: more turns were added than the buffer holds, and the oldest
\* one kept differs from the oldest one added.
C3_Witness ==
    /\ Len(added) > max_session_memories
    /\ Len(session_memories) = max_session_memories
    /\ max_session_memories >= 2
    /\ session_memories[1] # added[1]

IsFallbackReply(value, user_message) ==
    \E pick \in 1..Len(RandomReplies) : value = fallback_response(user_message, pick)

\* The request failed with an exception: the transport raised, or the body of
\* a 200 answer could not be parsed.
ProviderCallRaised(outcome) ==
    \/ outcome.kind = "raise"
    \/ outcome.kind = "http" /\ outcome.status = 200 /\ outcome.body = "not_json"

\* C4: generate_response never raises; uninitialized it returns the built-in
\* fallback reply, a non-empty string, and sends no request; when the selected
\* provider's call raises it returns the built-in fallback reply.
C4_GenerateNeverRaises ==
    ret.op = "generate_response" =>
        /\ ret.raised = FALSE
        /\ ~ai_is_initialized =>
              /\ requests = <<>>
              /\ IsFallbackReply(ret.value, ret.user_message)
              /\ Truthy(ret.value)
        /\ (ai_is_initialized /\ ProviderCallRaised(ret.outcome)) =>
              /\ IsFallbackReply(ret.value, ret.user_message)
              /\ Truthy(ret.value)

\* C4 witness: an initialized service whose request raised answered with the
\* fallback reply.
C4_Witness ==
    /\ ret.op = "generate_response"
    /\ ai_is_initialized
    /\ ret.outcome.kind = "raise"
    /\ Len(requests) = 1
    /\ IsFallbackReply(ret.value, ret.user_message)

HttpErrorFromRestProvider ==
    /\ ret.op = "generate_response"
    /\ ai_is_initialized
    /\ current_provider \in { "openrouter", "ollama" }
    /\ ret.outcome.kind = "http"
    /\ ret.outcome.status # 200

\* C5 as stated: on a non-success HTTP status from OpenRouter or Ollama,
\* generate_response returns the built-in fallback reply.
C5_HttpErrorGivesFallback ==
    HttpErrorFromRestProvider => IsFallbackReply(ret.value, ret.user_message)

\* C5 amended: on a non-success HTTP status from OpenRouter or Ollama,
\* generate_response returns None, without raising, after the one request;
\* the fallback reply is returned only for errors that raise.
C5_HttpErrorGivesNone ==
    HttpErrorFromRestProvider =>
        /\ ret.raised = FALSE
        /\ ret.value = None
        /\ ~IsFallbackReply(ret.value, ret.user_message)
        /\ Len(requests) = 1

\* C5 witness: OpenRouter answered 500 and the call returned None.
C5_Witness ==
    /\ HttpErrorFromRestProvider
    /\ current_provider = "openrouter"
    /\ ret.value = None

\* C6: a generate_response call issues at most one request, to the currently
\* selected provider only, also when that request fails, and leaves
\* current_provider unchanged.
C6_AtMostOneRequest ==
    [][ret'.op = "generate_response" =>
          /\ Len(requests') <= 1
          /\ \A i \in 1..Len(requests') : requests'[i].provider = current_provider
          /\ current_provider' = current_provider]_vars

\* C6 witness: a failed request was the only one sent.
C6_Witness ==
    /\ ret.op = "generate_response"
    /\ ProviderCallRaised(ret.outcome)
    /\ Len(requests) = 1
    /\ requests[1].provider = current_provider

\* C7: CompanionController.generate_ai_response returns a non-empty string for
\* every user message and every provider outcome (reply, empty reply, None,
\* exception, service not initialized); a None or empty provider reply is
\* replaced by the fixed apology text, any other reply is returned as it is.
C7_ControllerReturnsNonEmpty ==
    ret.op = "generate_ai_response" =>
        /\ ret.raised = FALSE
        /\ ret.value # None
        /\ ret.value # <<>>
        /\ (ret.response = None \/ ret.response = <<>>) => ret.value = Apology
        /\ (ret.response # None /\ ret.response # <<>>) => ret.value = ret.response

\* C7 witness: the provider answered 200 with an empty reply and the
\* controller returned the apology.
C7_Witness ==
    /\ ret.op = "generate_ai_response"
    /\ requests # <<>>
    /\ ret.outcome.kind = "http"
    /\ ret.outcome.status = 200
    /\ ret.response = <<>>
    /\ ret.value = Apology

\* C8: set_provider(p) with a supported p selects p, marks the service
\* uninitialized and returns True; any other p returns False and changes
\* neither; the service becomes initialized again only by an initialize that
\* returns True, and until then every reply is the built-in fallback, with no
\* request sent.
C8_SetProvider ==
    [][/\ ret'.op = "set_provider" =>
            IF ret'.provider \in { "openai", "openrouter", "ollama" }
            THEN /\ ret'.value = TRUE
                 /\ current_provider' = ret'.provider
                 /\ ai_is_initialized' = FALSE
            ELSE /\ ret'.value = FALSE
                 /\ current_provider' = current_provider
                 /\ ai_is_initialized' = ai_is_initialized
       /\ (~ai_is_initialized /\ ai_is_initialized') =>
            (ret'.op = "ai_initialize" /\ ret'.value = TRUE)
       /\ (~ai_is_initialized /\ ret'.op = "generate_response") =>
            /\ requests' = <<>>
            /\ IsFallbackReply(ret'.value, ret'.user_message)]_vars

\* C8 witness: a service that had been initialized with OpenAI was switched
\* to Ollama and is uninitialized.
C8_Witness ==
    /\ ret.op = "set_provider"
    /\ ret.value = TRUE
    /\ ret.provider = "ollama"
    /\ current_provider = "ollama"
    /\ openai_client
    /\ ~ai_is_initialized

\* C9 as stated: after set_model(m) returns True, get_current_model returns m
\* and every request generate_response sends names the current model.
C9_RequestsNameCurrentModel ==
    /\ (ret.op = "set_model" /\ ret.value = TRUE) => CurrentModel = ret.model_name
    /\ (ret.op = "get_current_model") => ret.value = CurrentModel
    /\ (ret.op = "generate_response" /\ requests # <<>>) =>
           requests[1].model = CurrentModel

\* C10: the message list built for a provider request is the system prompt,
\* then for each of at most the 10 most recent supplied history entries, oldest
\* first, its user message followed by its assistant response, then the current
\* user message; OpenAI and OpenRouter send that list. The controller supplies
\* the most recent session turns, at most 5, so its list has at most 5 prior
\* turns.
C10_MessageListShape ==
    (ret.op \in { "generate_response", "generate_ai_response" } /\ requests # <<>>) =>
        LET h == ret.conversation_history
            w == IF Len(h) < 10 THEN Len(h) ELSE 10
            m == ret.messages
        IN  /\ Len(m) = 2 * w + 2
            /\ m[1] = [role |-> "system", content |-> ret.system_prompt]
            /\ m[Len(m)] = [role |-> "user", content |-> ret.user_message]
            /\ \A j \in 1..w :
                 /\ m[2 * j] = [role |-> "user",
                                content |-> h[Len(h) - w + j].user_message]
                 /\ m[2 * j + 1] = [role |-> "assistant",
                                    content |-> h[Len(h) - w + j].assistant_response]
            /\ requests[1].provider \in { "openai", "openrouter" } =>
                 requests[1].payload = m
            /\ ret.op = "generate_ai_response" =>
                 LET n == Len(session_memories)
                     k == IF n < 5 THEN n ELSE 5
                 IN  /\ Len(h) = k
                     /\ \A j \in 1..k : h[j] = session_memories[n - k + j]
                     /\ Len(m) <= 2 * 5 + 2

\* C10 witness: with six turns in the session the controller's request to
\* OpenRouter carries the system prompt, the last five turns and the message.
C10_Witness ==
    /\ ret.op = "generate_ai_response"
    /\ Len(session_memories) = 6
    /\ requests # <<>>
    /\ requests[1].provider = "openrouter"
    /\ Len(requests[1].payload) = 12
    /\ requests[1].payload[2].content = session_memories[2].user_message

\* C15 as stated: whenever initialize returns False the service is
\* uninitialized afterwards.
C15_FailedInitializeLeavesUninitialized ==
    (ret.op = "ai_initialize" /\ ret.value = FALSE) => ~ai_is_initialized

\* C16: in every state reachable through initialize and set_provider, an
\* initialized service has one of the three supported providers selected, and
\* with OpenAI selected its client is set; so a generate_response call on an
\* initialized service sends its request to the selected provider.
C16_InitializedHasProviderAndClient ==
    /\ ai_is_initialized => current_provider \in { "openai", "openrouter", "ollama" }
    /\ (ai_is_initialized /\ current_provider = "openai") => openai_client
    /\ (ret.op = "generate_response" /\ ai_is_initialized) =>
         /\ Len(requests) = 1
         /\ requests[1].provider = current_provider

\* C16 witness: a service initialized for OpenAI after a provider change sent
\* its request to OpenAI.
C16_Witness ==
    /\ ret.op = "generate_response"
    /\ ai_is_initialized
    /\ current_provider = "openai"
    /\ openai_client
    /\ Len(requests) = 1
    /\ requests[1].provider = "openai"

BackendSearchCompleted ==
    /\ backend_calls # <<>>
    /\ backend_calls[1].method = "search"
    /\ backend_calls[1].outcome \in { "results", "no_results_key" }

\* C17: when long-term memory is initialized and the backend search completes,
\* search_memories returns exactly the converted backend results (none when
\* the answer has no "results") and nothing from the session buffer, even when
\* the backend result is empty and session turns match the query.
C17_BackendResultsOnly ==
    (ret.op = "search_memories" /\ mem_is_initialized /\ BackendSearchCompleted) =>
        /\ \E r \in BackendResults :
             ret.entries = [i \in 1..Len(r) |->
                              [id |-> r[i].id, content |-> r[i].memory,
                               score |-> r[i].score]]
        /\ backend_calls[1].outcome = "no_results_key" => ret.entries = <<>>
        /\ \A i \in 1..Len(ret.entries) :
             /\ ret.entries[i].id # None
             /\ \A j \in 1..Len(session_memories) :
                  ret.entries[i] # SessionMemoryEntry(session_memories[j])
        /\ ret.total_count = Len(ret.entries)

\* C17 witness: the backend answered with no results while a session turn
\* matches the query, and the search returned nothing.
C17_Witness ==
    /\ ret.op = "search_memories"
    /\ mem_is_initialized
    /\ backend_calls # <<>>
    /\ backend_calls[1].outcome = "results"
    /\ ret.entries = <<>>
    /\ search_session_memories(ret.query, ret.limit) # <<>>

\* C18: add_user_preference returns False and makes no backend call when
\* long-term memory is not initialized; when it is initialized it returns True
\* whether or not the backend add raises; the session buffer is never changed.
C18_PreferenceHasNoSessionFallback ==
    [][ret'.op = "add_user_preference" =>
         /\ session_memories' = session_memories
         /\ ret'.raised = FALSE
         /\ ~mem_is_initialized => (ret'.value = FALSE /\ backend_calls' = <<>>)
         /\ mem_is_initialized =>
              /\ ret'.value = TRUE
              /\ Len(backend_calls') = 1
              /\ backend_calls'[1].method = "add"]_vars

\* C18 witness: the backend add of a preference raised, the call returned True
\* and the session buffer still holds its turn.
C18_Witness ==
    /\ ret.op = "add_user_preference"
    /\ mem_is_initialized
    /\ backend_calls # <<>>
    /\ backend_calls[1].outcome = "raise"
    /\ ret.value = TRUE
    /\ Len(session_memories) = 1

RecognisedCommands ==
    HelpCommands \cup PersonalityCommands \cup StatsCommands \cup ClearCommands
    \cup MemoryCommands \cup ConfigCommands \cup ProviderCommands \cup ModelCommands

\* C12: the input of the main loop is judged lower-cased and trimmed: a quit
\* word gives False and ends the loop, every other recognised command word
\* gives True, anything else gives None and is processed as conversation;
\* a recognised command adds no session-memory entry and leaves
\* total_conversations and interaction_count unchanged, blank input changes
\* nothing, and entries and counters change only inside a conversation turn.
C12_CommandsAreNotConversation ==
    /\ [][pc = "loop" =>
            LET line == user_input'
                word == Strip(Lower(line))
                quiet == /\ Len(session_memories') <= Len(session_memories)
                         /\ user_profile'.total_conversations
                              = user_profile.total_conversations
                         /\ interaction_count' = interaction_count
            IN  /\ Strip(line) = <<>> =>
                     /\ pc' = "loop"
                     /\ UNCHANGED << session_memories, user_profile,
                                     interaction_count, personality_type,
                                     profile_file, ai_is_initialized,
                                     current_provider >>
                /\ (Strip(line) # <<>> /\ word \in QuitWords) =>
                     /\ pc' = "finally"
                     /\ quiet
                     /\ ProcessCommandReturns(line) = "False"
                /\ (Strip(line) # <<>> /\ word \in RecognisedCommands) =>
                     /\ pc' \in { "loop", "reinitialize" }
                     /\ quiet
                     /\ ProcessCommandReturns(line) = "True"
                /\ (Strip(line) # <<>> /\ word \notin QuitWords \cup RecognisedCommands) =>
                     /\ pc' = "reply"
                     /\ ProcessCommandReturns(line) = "None"]_vars
    /\ [][(\/ Len(session_memories') > Len(session_memories)
           \/ user_profile'.total_conversations # user_profile.total_conversations
           \/ interaction_count' # interaction_count)
          => (pc \in TurnPcs /\ CommandHandler(user_input) = "none"
              /\ Strip(user_input) # <<>>)]_vars

\* C12 witness: after one conversation turn the input "Memory " was taken as
\* the memory command: the session buffer was cleared and the counters kept.
C12_Witness ==
    /\ pc = "loop"
    /\ user_input = <<"M", "e", "m", "o", "r", "y", " ">>
    /\ ret.op = "clear_session_memory"
    /\ session_memories = <<>>
    /\ interaction_count = 1
    /\ user_profile.total_conversations = 1

\* C13: the session duration is added to total_session_time exactly once, in
\* the finally block that every way out of run enters (quit command, end of
\* input, confirmed interrupt, escaping error); the last save of the profile
\* comes after that update, is given the profile that includes it, and the
\* file holds it when that write succeeds; the finally block runs to its end.
C13_SessionTimeAddedOnce ==
    /\ [](/\ session_updates = IF pc \in { "finally_save_again", "done" } THEN 1 ELSE 0
          /\ pc \notin { "finally_save_again", "done" } =>
               user_profile.total_session_time = 0
          /\ pc \in { "finally_save_again", "done" } =>
               user_profile.total_session_time = ret.session_duration
          /\ pc = "done" =>
               /\ ret.exit \in { "quit", "end_of_input", "interrupt", "error" }
               /\ Len(last_save) = 1
               /\ last_save[1].data = user_profile
               /\ last_save[1].ok => profile_file = << user_profile >>)
    /\ (pc = "finally") ~> (pc = "done")

\* C13 witness: run ended by a confirmed interrupt during a turn; the session
\* time was added once and is in the saved profile.
C13_Witness ==
    /\ pc = "done"
    /\ ret.exit = "interrupt"
    /\ session_updates = 1
    /\ user_profile.total_session_time >= 1
    /\ profile_file = << user_profile >>
    /\ Len(session_memories) = 1

\* C14: within one turn the memory search and the history retrieval feed the
\* provider request (its system prompt and history come from the state before
\* the turn is stored), the turn is stored only after the reply was produced
\* and displayed, with that reply, and a completed turn was stored exactly
\* once.
C14_TurnOrder ==
    /\ [](/\ pc \in { "reply", "display", "store" } => stored = 0
          /\ pc = "update" => stored = 1
          /\ stored <= 1)
    /\ [][ret'.op = "generate_ai_response" =>
            /\ pc = "reply" /\ pc' = "display"
            /\ stored = 0
            /\ session_memories' = session_memories
            /\ ret'.user_message = user_input
            /\ ret'.conversation_history = ConversationHistory(5)
            /\ Len(ret'.conversation_history) = Len(added)
            /\ \A i \in 1..Len(backend_calls') : backend_calls'[i].method = "search"
            /\ \A i \in 1..Len(requests') :
                 requests'[i].provider = "openrouter" =>
                   /\ requests'[i].payload[1].content = ret'.system_prompt
                   /\ Len(requests'[i].payload) = 2 * Len(session_memories) + 2
            /\ reply' = ret'.value]_vars
    /\ [][ret'.op = "add_conversation" =>
            /\ pc = "store" /\ pc' = "update"
            /\ ret.op = "display_message"
            /\ ret.message = reply
            /\ reply # None
            /\ ret'.user_message = user_input
            /\ ret'.assistant_response = reply
            /\ session_memories' = Append(session_memories,
                                          ConversationEntry(user_input, reply))]_vars
    /\ [][(pc = "update" /\ pc' = "loop" /\ ret'.op # "conversation_aborted") =>
            /\ stored' = 1
            /\ session_memories' = session_memories
            /\ user_profile'.total_conversations
                 = user_profile.total_conversations + 1]_vars

\* C14 witness: a turn answered by OpenRouter was displayed, stored once with
\* long-term memory initialized, and completed.
C14_Witness ==
    /\ pc = "loop"
    /\ ret.op = "update_stats"
    /\ stored = 1
    /\ mem_is_initialized
    /\ current_provider = "openrouter"
    /\ Len(session_memories) = 1
    /\ session_memories[1].assistant_response = <<"Y", "o">>
    /\ user_profile.total_conversations = 1

=============================================================================
